---- MODULE Spec2Model ----
(***************************************************************************)
(* State-machine model of the Tic Tac Toe App component                    *)
(* (src/tic_tac_toe_frontend/src/App.js).                                  *)
(*                                                                         *)
(* A JavaScript array is modelled as a function from its own property      *)
(* keys (integers) to cell values: the keys 0..length-1 are its elements,  *)
(* a negative key is an ordinary property of the array object.  Reading a  *)
(* key that is absent yields undefined, which is modelled by Null because  *)
(* the code only ever tests cells for truthiness or compares them with     *)
(* "X" / "O".                                                              *)
(*                                                                         *)
(* Each action is one handler or timeout callback together with the render *)
(* its state updates cause: the updates of one handler are batched, and    *)
(* the computer-move effect (dependencies game, mode, started) runs its    *)
(* cleanup and its body with that render.  setGame always gets a new       *)
(* object, so every call of it re-runs the effect.  A closure sees the     *)
(* state of the render that created it: handlers called from the page see  *)
(* the current state, the computer's timeout sees the game it was set up   *)
(* for (aiTimer.game).  The score timeouts are never cleared.              *)
(***************************************************************************)
EXTENDS Integers, Sequences, FiniteSets, TLC

\* Number of cells of a fresh board: Array(9).
N == 9

\* Moves are explored only while fewer than MaxScore round results (applied
\* plus still pending score increments) exist.
MaxScore == 1

\* Accepted handleMove calls per round that the rendered page does not offer
\* (the cell button is disabled or not rendered, or the index is no cell).
MaxStray == 1

Null == "null"
Marks == {"X", "O"}

\* MODES.PVP / MODES.PVC
PVP == "2 Players"
PVC == "Play vs Computer"
MODES == {PVP, PVC}

\* Score keys used by handleMove: winner ? winner : "Tie".
ScoreKeys == {"X", "O", "Tie"}

\* Cell indices handed to handleMove: those of the nine buttons renderCell
\* is called for, and with them the two nearest indices that are no cell.
Cells == 0..(N - 1)

Indices == (0 - 1)..N

VARIABLES
    mode,         \* useState(MODES.PVP)
    game,         \* useState(initialState())
    scores,       \* useState({X: 0, O: 0, Tie: 0})
    started,      \* useState(false)
    aiTimer,      \* the computer-move timeout of the effect, with the game its closure captured
    scoreTimers,  \* pending setScores timeouts of handleMove, counted per score key
    lastOp,       \* history: the last handler that ran, whether it got past its guard, and
                  \*          whether its render cleared a computer-move timeout that was still pending
    lastMark,     \* history: the mark the last accepted move of the current round put on the board
    finished,     \* history: rounds that reached a terminal outcome since the last resetAll, per score key
    carried,      \* history: score timeouts still pending when resetAll last ran, per score key
    stray,        \* history: accepted moves of the current round that no enabled cell button offers
    script,       \* history: calls of Scenario2 made, in order, since startNewGame; NoScript once anything else ran
    probe         \* a board handed to bestAIMove on its own, and what the call returned

vars == <<mode, game, scores, started, aiTimer, scoreTimers, lastOp, lastMark, finished, carried, stray,
          script, probe>>

----------------------------------------------------------------------------
\* Pure helpers of App.js

Truthy(c) == c \in Marks

\* board[idx] as JavaScript reads it.
Get(board, idx) == IF idx \in DOMAIN board THEN board[idx] ELSE Null

\* board.length
Length(board) == Cardinality({i \in DOMAIN board : i >= 0})

\* [...board] / board.slice(): the elements only, other properties are not copied.
Copy(board) == [i \in 0..(Length(board) - 1) |-> Get(board, i)]

\* copy[idx] = v
Put(board, idx, v) == [i \in (DOMAIN board) \cup {idx} |-> IF i = idx THEN v ELSE board[i]]

EmptyBoard == [i \in 0..(N - 1) |-> Null]

initialState == [board |-> EmptyBoard, xIsNext |-> TRUE, winner |-> Null, tie |-> FALSE]

\* The list of getWinner without its last entry.
lines_NoAntiDiagonal == << <<0, 1, 2>>, <<3, 4, 5>>, <<6, 7, 8>>,
                           <<0, 3, 6>>, <<1, 4, 7>>, <<2, 5, 8>>,
                           <<0, 4, 8>> >>

lines == << <<0, 1, 2>>, <<3, 4, 5>>, <<6, 7, 8>>,
            <<0, 3, 6>>, <<1, 4, 7>>, <<2, 5, 8>>,
            <<0, 4, 8>>, <<2, 4, 6>> >>

LineOwned(board, l) ==
    /\ Truthy(Get(board, l[1]))
    /\ Get(board, l[1]) = Get(board, l[2])
    /\ Get(board, l[1]) = Get(board, l[3])

\* The loop of getWinner from the k-th line on: the mark of the first owned
\* line in the order of the list, else null.
RECURSIVE WinnerFrom(_, _)
WinnerFrom(board, k) ==
    IF k > Len(lines) THEN Null
    ELSE IF LineOwned(board, lines[k]) THEN Get(board, lines[k][1])
    ELSE WinnerFrom(board, k + 1)

getWinner(board) == WinnerFrom(board, 1)

\* getAvailableMoves without its filter: every index is offered.
getAvailableMoves_All(board) == {i \in DOMAIN board : i >= 0}

\* Indices of the falsy elements (map + filter visit elements only).
getAvailableMoves(board) == {i \in DOMAIN board : i >= 0 /\ ~Truthy(board[i])}

\* board.every((cell) => cell)
EveryCell(board) == \A i \in DOMAIN board : i >= 0 => Truthy(board[i])

Min(S) == CHOOSE x \in S : \A y \in S : x <= y

WinningMoves(board, mark) ==
    {i \in getAvailableMoves(board) : getWinner(Put(Copy(board), i, mark)) = mark}

\* The set of indices getRandomMove(board) can return; the empty set stands
\* for its null result.
getRandomMove(board) == getAvailableMoves(board)

\* bestAIMove with its two loops in the other order: block before win.
bestAIMove_BlockFirst(board) ==
    IF WinningMoves(board, "X") # {} THEN {Min(WinningMoves(board, "X"))}
    ELSE IF WinningMoves(board, "O") # {} THEN {Min(WinningMoves(board, "O"))}
    ELSE getRandomMove(board)

\* bestAIMove without its second loop: win, else random.
bestAIMove_NoBlock(board) ==
    IF WinningMoves(board, "O") # {} THEN {Min(WinningMoves(board, "O"))}
    ELSE getRandomMove(board)

\* The set of indices bestAIMove(board) can return; the empty set stands for
\* its null result.
bestAIMove(board) ==
    IF WinningMoves(board, "O") # {} THEN {Min(WinningMoves(board, "O"))}
    ELSE IF WinningMoves(board, "X") # {} THEN {Min(WinningMoves(board, "X"))}
    ELSE getRandomMove(board)

\* nextTurn(board): X when the number of truthy elements is even.
nextTurn(board) ==
    IF Cardinality({i \in DOMAIN board : i >= 0 /\ Truthy(board[i])}) % 2 = 0 THEN "X" ELSE "O"

----------------------------------------------------------------------------
\* The App component

\* The moves of scenario 2, in the order they are submitted.
Scenario2 == <<0, 1, 2, 3, 4, 5, 6, 8, 7>>

NoScript == 0 - 1

\* The scenario's progress after a handleMove(idx) call.
ScriptAfter(idx) ==
    IF script >= 0 /\ script < Len(Scenario2) /\ idx = Scenario2[script + 1]
    THEN script + 1
    ELSE NoScript

NoProbe == [board |-> EmptyBoard, asked |-> FALSE, ret |-> {}]

NoTimer == [set |-> FALSE, game |-> initialState]

ZeroScores == [k \in ScoreKeys |-> 0]

Sum(f) == f["X"] + f["O"] + f["Tie"]

Terminal(g) == Truthy(g.winner) \/ g.tie

\* handleMove guards with the terminal test / the occupied-cell test left out.
MoveRejected_NoTerminalTest(g, idx) == Truthy(Get(g.board, idx))

MoveRejected_NoOccupiedTest(g, idx) == Truthy(g.winner) \/ g.tie

\* The guard of handleMove: if (game.board[idx] || game.winner || game.tie) return;
MoveRejected(g, idx) == Truthy(Get(g.board, idx)) \/ Truthy(g.winner) \/ g.tie

\* The mark handleMove places: game.xIsNext ? "X" : "O".
MarkToPlace(g) == IF g.xIsNext THEN "X" ELSE "O"

\* handleMove passing xIsNext on without negating it.
MoveResult_TurnNotFlipped(g, idx) ==
    LET board  == Put(Copy(g.board), idx, MarkToPlace(g))
        winner == getWinner(board)
        tie    == ~Truthy(winner) /\ EveryCell(board)
    IN  [board |-> board, xIsNext |-> g.xIsNext, winner |-> winner, tie |-> tie]

\* handleMove computing tie without the !winner test.
MoveResult_TieIgnoresWinner(g, idx) ==
    LET board  == Put(Copy(g.board), idx, MarkToPlace(g))
        winner == getWinner(board)
        tie    == EveryCell(board)
    IN  [board |-> board, xIsNext |-> ~g.xIsNext, winner |-> winner, tie |-> tie]

\* handleMove computing the winner from the board before the move.
MoveResult_WinnerOfOldBoard(g, idx) ==
    LET board  == Put(Copy(g.board), idx, MarkToPlace(g))
        winner == getWinner(g.board)
        tie    == ~Truthy(winner) /\ EveryCell(board)
    IN  [board |-> board, xIsNext |-> ~g.xIsNext, winner |-> winner, tie |-> tie]

\* The object handleMove passes to setGame.
MoveResult(g, idx) ==
    LET board  == Put(Copy(g.board), idx, MarkToPlace(g))
        winner == getWinner(board)
        tie    == ~Truthy(winner) /\ EveryCell(board)
    IN  [board |-> board, xIsNext |-> ~g.xIsNext, winner |-> winner, tie |-> tie]

\* handleMove counting every finished round as a tie.
ScoreKeysScheduled_AlwaysTie(g) ==
    IF Truthy(g.winner) \/ g.tie THEN <<"Tie">> ELSE << >>

\* The score timeouts handleMove schedules for the object it passed to setGame.
ScoreKeysScheduled(g) ==
    IF Truthy(g.winner) THEN <<g.winner>>
    ELSE IF g.tie THEN <<"Tie">>
    ELSE << >>

\* The effect's condition without its mode test.
ComputerToMove_AnyMode(m, g, s) ==
    s /\ ~Truthy(g.winner) /\ ~g.tie /\ ~g.xIsNext

\* The condition of the computer-move effect and the timer it sets up.
ComputerToMove(m, g, s) ==
    s /\ m = PVC /\ ~Truthy(g.winner) /\ ~g.tie /\ ~g.xIsNext

\* The effect without its cleanup: a timeout already set up stays pending
\* when the next render sets up none.
EffectTimer_NoCleanup(m, g, s) ==
    IF ComputerToMove(m, g, s) THEN [set |-> TRUE, game |-> g] ELSE aiTimer

EffectTimer(m, g, s) ==
    IF ComputerToMove(m, g, s) THEN [set |-> TRUE, game |-> g] ELSE NoTimer

\* setScores((prev) => ({...prev, [key]: prev[key] + 1}))
ScoreUpdate(prev, key) == [prev EXCEPT ![key] = prev[key] + 1]

\* resetAll without its setScores call.
resetAllResult_ScoresKept ==
    [game |-> initialState, scores |-> scores, started |-> FALSE, mode |-> PVP]

\* What resetAll and chooseMode hand to their setters.
resetAllResult == [game |-> initialState, scores |-> ZeroScores, started |-> FALSE, mode |-> PVP]

chooseModeResult(newMode) == [mode |-> newMode, started |-> FALSE, game |-> initialState]

startNewGameResult == [game |-> initialState, started |-> TRUE]

RECURSIVE AddTimers(_, _)
AddTimers(timers, keys) ==
    IF keys = << >> THEN timers
    ELSE AddTimers([timers EXCEPT ![Head(keys)] = timers[Head(keys)] + 1], Tail(keys))

\* renderCell: the button of cell idx exists (the board is rendered only when
\* started) and its disabled attribute is false.
CellEnabled(idx) ==
    /\ started
    /\ idx \in Cells
    /\ ~(\/ Truthy(Get(game.board, idx))
         \/ Truthy(game.winner)
         \/ game.tie
         \/ (mode = PVC /\ ~game.xIsNext))

\* Moves of a round in progress are explored only while fewer than MaxScore
\* round results exist.
WithinBound(g) == Terminal(g) \/ Sum(scores) + Sum(scoreTimers) < MaxScore

\* The score key of a terminal outcome.
OutcomeKey(g) == IF Truthy(g.winner) THEN g.winner ELSE "Tie"

\* handleMove(idx) run by a closure whose `game` is g.
HandleMoveOn(g, idx) ==
    IF MoveRejected(g, idx)
    THEN UNCHANGED <<game, aiTimer, scoreTimers, lastMark, finished>>
    ELSE LET ng == MoveResult(g, idx)
         IN  /\ WithinBound(g)
             /\ game' = ng
             /\ aiTimer' = EffectTimer(mode, ng, started)
             /\ scoreTimers' = AddTimers(scoreTimers, ScoreKeysScheduled(ng))
             /\ lastMark' = Get(ng.board, idx)
             /\ finished' = IF ~Terminal(g) /\ Terminal(ng)
                            THEN [finished EXCEPT ![OutcomeKey(ng)] = finished[OutcomeKey(ng)] + 1]
                            ELSE finished

Init ==
    /\ mode = PVP
    /\ game = initialState
    /\ scores = ZeroScores
    /\ started = FALSE
    /\ aiTimer = NoTimer
    /\ scoreTimers = ZeroScores
    /\ lastOp = [op |-> "init", ok |-> TRUE, cleared |-> FALSE]
    /\ lastMark = Null
    /\ finished = ZeroScores
    /\ carried = ZeroScores
    /\ stray = 0
    /\ script = NoScript
    /\ probe = NoProbe

\* handleMove(idx), called with the closure of the current render.
handleMove(idx) ==
    /\ HandleMoveOn(game, idx)
    /\ lastOp' = [op |-> "handleMove", ok |-> ~MoveRejected(game, idx),
                  cleared |-> aiTimer.set /\ ~MoveRejected(game, idx)]
    /\ IF MoveRejected(game, idx) \/ CellEnabled(idx)
       THEN UNCHANGED stray
       ELSE stray < MaxStray /\ stray' = stray + 1
    /\ script' = ScriptAfter(idx)
    /\ UNCHANGED <<mode, scores, started, carried, probe>>

\* The timeout callback of the effect: bestAIMove on the captured board,
\* then handleMove of the render that set the timer.
ComputerMove ==
    /\ aiTimer.set
    /\ IF bestAIMove(aiTimer.game.board) = {}
       THEN /\ aiTimer' = NoTimer
            /\ lastOp' = [op |-> "computerMove", ok |-> FALSE, cleared |-> FALSE]
            /\ UNCHANGED <<game, scoreTimers, lastMark, finished>>
       ELSE \E idx \in bestAIMove(aiTimer.game.board) :
               IF MoveRejected(aiTimer.game, idx)
               THEN /\ aiTimer' = NoTimer
                    /\ lastOp' = [op |-> "computerMove", ok |-> FALSE, cleared |-> FALSE]
                    /\ UNCHANGED <<game, scoreTimers, lastMark, finished>>
               ELSE /\ HandleMoveOn(aiTimer.game, idx)
                    /\ lastOp' = [op |-> "computerMove", ok |-> TRUE, cleared |-> FALSE]
    /\ script' = NoScript
    /\ UNCHANGED <<mode, scores, started, carried, stray, probe>>

startNewGame ==
    /\ game' = startNewGameResult.game
    /\ started' = startNewGameResult.started
    /\ aiTimer' = EffectTimer(mode, game', started')
    /\ lastOp' = [op |-> "startNewGame", ok |-> TRUE, cleared |-> aiTimer.set]
    /\ lastMark' = Null
    /\ stray' = 0
    /\ script' = 0
    /\ UNCHANGED <<mode, scores, scoreTimers, finished, carried, probe>>

resetAll ==
    /\ game' = resetAllResult.game
    /\ scores' = resetAllResult.scores
    /\ started' = resetAllResult.started
    /\ mode' = resetAllResult.mode
    /\ aiTimer' = EffectTimer(mode', game', started')
    /\ lastOp' = [op |-> "resetAll", ok |-> TRUE, cleared |-> aiTimer.set]
    /\ lastMark' = Null
    /\ finished' = ZeroScores
    /\ carried' = scoreTimers
    /\ stray' = 0
    /\ script' = NoScript
    /\ UNCHANGED <<scoreTimers, probe>>

chooseMode(newMode) ==
    /\ mode' = chooseModeResult(newMode).mode
    /\ started' = chooseModeResult(newMode).started
    /\ game' = chooseModeResult(newMode).game
    /\ aiTimer' = EffectTimer(mode', game', started')
    /\ lastOp' = [op |-> "chooseMode", ok |-> TRUE, cleared |-> aiTimer.set]
    /\ lastMark' = Null
    /\ stray' = 0
    /\ script' = NoScript
    /\ UNCHANGED <<scores, scoreTimers, finished, carried, probe>>

\* A timeout set by handleMove fires: setScores with the functional update.
ScoreTimerFires(key) ==
    /\ scoreTimers[key] > 0
    /\ scoreTimers' = [scoreTimers EXCEPT ![key] = scoreTimers[key] - 1]
    /\ scores' = ScoreUpdate(scores, key)
    /\ lastOp' = [op |-> "scoreTimer", ok |-> TRUE, cleared |-> FALSE]
    /\ UNCHANGED <<mode, game, started, aiTimer, lastMark, finished, carried, stray, script, probe>>

Move == \E idx \in Cells : handleMove(idx)

MoveOutside == \E idx \in Indices \ Cells : handleMove(idx)

SelectMode == \E newMode \in MODES : chooseMode(newMode)

ScoreTimer == \E key \in ScoreKeys : ScoreTimerFires(key)

Next ==
    \/ Move
    \/ ComputerMove
    \/ startNewGame
    \/ resetAll
    \/ SelectMode
    \/ ScoreTimer

Spec == Init /\ [][Next]_vars

\* bestAIMove on its own: any board of nine cells, one call.
Boards == [Cells -> Marks \cup {Null}]

InitAI ==
    /\ mode = PVP
    /\ game = initialState
    /\ scores = ZeroScores
    /\ started = FALSE
    /\ aiTimer = NoTimer
    /\ scoreTimers = ZeroScores
    /\ lastOp = [op |-> "init", ok |-> TRUE, cleared |-> FALSE]
    /\ lastMark = Null
    /\ finished = ZeroScores
    /\ carried = ZeroScores
    /\ stray = 0
    /\ script = NoScript
    /\ probe \in {[board |-> b, asked |-> FALSE, ret |-> {}] : b \in Boards}

AskBestAIMove ==
    /\ ~probe.asked
    /\ probe' = [probe EXCEPT !.asked = TRUE, !.ret = bestAIMove(probe.board)]
    /\ UNCHANGED <<mode, game, scores, started, aiTimer, scoreTimers, lastOp, lastMark,
                   finished, carried, stray, script>>

SpecAI == InitAI /\ [][AskBestAIMove]_vars

\* The component with the computer-move timeout firing once it is pending.
SpecLive == Init /\ [][Next]_vars /\ WF_vars(ComputerMove)

\* The same component with handleMove also called with indices that are no cell.
NextIdx ==
    \/ Next
    \/ MoveOutside

SpecIdx == Init /\ [][NextIdx]_vars

----------------------------------------------------------------------------
\* Properties

HasLine(board, m) == \E k \in 1..Len(lines) : \A j \in 1..3 : Get(board, lines[k][j]) = m

AllCellsOccupied(board) == \A i \in Cells : Get(board, i) \in Marks

OtherMark(m) == IF m = "X" THEN "O" ELSE "X"

\* C1 (terminal lock): a handleMove call on any index in a state whose round
\* is won or tied gets no further than the guard: board, winner, tie, turn
\* flag, scores and pending score timeouts are what they were before the call.
C1_TerminalLock ==
    [][(lastOp'.op = "handleMove" /\ Terminal(game)) =>
          (~lastOp'.ok /\ UNCHANGED <<game, scores, scoreTimers, aiTimer>>)]_vars

C1_Witness == lastOp.op = "handleMove" /\ ~lastOp.ok /\ Terminal(game)

\* C2 (occupied cell): a handleMove call on an occupied cell of a round in
\* progress changes neither the board, the turn flag, the outcome, the scores
\* nor the pending score timeouts.
C2_OccupiedRejected ==
    [][\A idx \in Indices :
          (lastOp'.op = "handleMove" /\ Truthy(Get(game.board, idx)) /\ handleMove(idx)) =>
              (~lastOp'.ok /\ UNCHANGED <<game, scores, scoreTimers>>)]_vars

C2_Witness ==
    /\ lastOp.op = "handleMove" /\ ~lastOp.ok
    /\ started /\ ~Terminal(game)
    /\ \E idx \in Cells : Truthy(Get(game.board, idx))

\* C3 (index range), as claimed: a handleMove call with an index outside 0..8
\* changes nothing, so the board always has exactly nine cells and the turn
\* flag is not flipped by such a call.
C3_OutOfRangeRejected ==
    [][/\ \A idx \in Indices \ Cells : handleMove(idx) => UNCHANGED game
       /\ Length(game'.board) = N]_vars

\* C4 (computer's turn), as claimed: while the computer's move is pending in
\* Play-vs-Computer mode, a handleMove call places no mark.
C4_HumanRejectedOnComputerTurn ==
    [][\A idx \in Indices :
          (handleMove(idx) /\ ComputerToMove(mode, game, started) /\ aiTimer.set) =>
              UNCHANGED game]_vars

\* C5 (mode change mid-round), as claimed: chooseMode called while started
\* is true changes neither mode, started, the round nor the scores.
C5_ChooseModeWhileStartedNoOp ==
    [][\A newMode \in MODES :
          (chooseMode(newMode) /\ started) => UNCHANGED <<mode, started, game, scores>>]_vars

\* C6 (not started), as claimed: while started is false a handleMove call
\* leaves the board empty and the scores and their timeouts unchanged.
C6_NoMoveBeforeStart ==
    [][\A idx \in Indices :
          (handleMove(idx) /\ ~started) =>
              (game'.board = EmptyBoard /\ UNCHANGED <<game, scores, scoreTimers>>)]_vars

C8_TurnAlternation ==
    [][(lastOp'.op \in {"handleMove", "computerMove"} /\ lastOp'.ok /\ game' # game) =>
          lastMark' = (IF lastMark = Null THEN "X" ELSE OtherMark(lastMark))]_vars

C8_Witness ==
    /\ lastOp.op \in {"handleMove", "computerMove"} /\ lastOp.ok
    /\ lastMark = "O"
    /\ Cardinality({i \in Cells : Truthy(Get(game.board, i))}) >= 4

\* C9 (win precedence): a stored board whose nine cells are occupied and
\* that has a line owned by one mark is recorded as won by that mark and not
\* as tied; tie is never recorded for a board with an owned line.
C9_WinPrecedence ==
    /\ \A m \in Marks :
          (AllCellsOccupied(game.board) /\ HasLine(game.board, m)) =>
              (game.winner = m /\ ~game.tie)
    /\ game.tie => \A m \in Marks : ~HasLine(game.board, m)

C9_Witness ==
    /\ AllCellsOccupied(game.board)
    /\ HasLine(game.board, "X")
    /\ game.winner = "X" /\ ~game.tie
    /\ lastOp.op = "handleMove" /\ lastOp.ok

\* C10 (reset): right after resetAll the three scores are 0, the mode is
\* 2 Players, started is false and the round is a fresh one: empty board, X
\* to move, no winner, no tie.
C10_ResetAll ==
    lastOp.op = "resetAll" =>
        /\ \A k \in ScoreKeys : scores[k] = 0
        /\ mode = PVP
        /\ ~started
        /\ \A i \in Cells : Get(game.board, i) = Null
        /\ Length(game.board) = N
        /\ game.xIsNext /\ game.winner = Null /\ ~game.tie

C10_Witness == lastOp.op = "resetAll" /\ Sum(carried) > 0

\* C11 (stale automated move discarded): a step of startNewGame, resetAll or
\* chooseMode leaves a fresh round and no computer-move timeout pending,
\* whether or not one was pending before it; and every computer move that
\* is applied is applied to the very round its timeout was set up for, which
\* is the current one and has a mark on its board. So the empty board of a
\* new round is changed only by a move submitted against that round.
C11_StaleMoveDiscarded ==
    [][/\ lastOp'.op \in {"startNewGame", "resetAll", "chooseMode"} =>
              (~aiTimer'.set /\ game' = initialState)
       /\ (lastOp'.op = "computerMove" /\ lastOp'.ok) =>
              (aiTimer.set /\ aiTimer.game = game /\ game.board # EmptyBoard)]_vars

C11_Witness ==
    /\ lastOp.op \in {"startNewGame", "resetAll", "chooseMode"}
    /\ lastOp.cleared
    /\ ~aiTimer.set
    /\ game.board = EmptyBoard

\* The empty cells of a board, and the empty cells that complete a line for
\* a mark: the other two cells of some line through the cell hold that mark.
EmptyCells(board) == {i \in Cells : board[i] = Null}

Completes(board, i, m) ==
    /\ board[i] = Null
    /\ \E k \in 1..Len(lines) :
          /\ \E j \in 1..3 : lines[k][j] = i
          /\ \A j \in 1..3 : lines[k][j] # i => board[lines[k][j]] = m

CompletingCells(board, m) == {i \in Cells : Completes(board, i, m)}

NoLineOwned(board) == \A m \in Marks : ~HasLine(board, m)

\* C12 (opponent legality): for every board of nine cells, every index
\* bestAIMove can return is an empty cell of that board, and it returns null
\* exactly when the board has no empty cell.
C12_OpponentLegality ==
    probe.asked =>
        /\ probe.ret \subseteq EmptyCells(probe.board)
        /\ (probe.ret = {}) <=> (EmptyCells(probe.board) = {})

C12_Witness ==
    /\ probe.asked
    /\ EmptyCells(probe.board) = {}
    /\ probe.ret = {}

ScenarioBoard(k) ==
    [i \in Cells |->
        IF \E j \in 1..k : Scenario2[j] = i
        THEN (IF (CHOOSE j \in 1..k : Scenario2[j] = i) % 2 = 1 THEN "X" ELSE "O")
        ELSE Null]

\* C15 (scenario 2), as stated: once the nine calls 0,1,2,3,4,5,6,8,7 have
\* been made on a fresh round, the board is full, the round is tied and one
\* tie increment has been scheduled or applied.
C15_Scenario2Tied ==
    script = Len(Scenario2) =>
        /\ AllCellsOccupied(game.board)
        /\ game.tie
        /\ scores["Tie"] + scoreTimers["Tie"] >= 1

\* C15 (scenario 2), amended: the first six calls are accepted and leave
\* the round in progress; the seventh (index 6) is accepted, completes the
\* line 2-4-6 for X, records X as winner and schedules one increment of X's
\* score and none of the tie count; the calls at 8 and 7 are rejected and
\* change nothing, cells 7 and 8 staying empty.
C15_Scenario2 ==
    /\ [](script \in 1..6 =>
            (game.board = ScenarioBoard(script) /\ ~Terminal(game)))
    /\ [](script \in 7..9 =>
            (game.board = ScenarioBoard(7) /\ game.winner = "X" /\ ~game.tie))
    /\ [][(script = 6 /\ script' = 7) =>
             /\ lastOp'.ok
             /\ scoreTimers' = [scoreTimers EXCEPT !["X"] = scoreTimers["X"] + 1]
             /\ scores' = scores]_vars
    /\ [][(script \in 7..8 /\ script' = script + 1) =>
             (~lastOp'.ok /\ game' = game /\ scoreTimers' = scoreTimers /\ scores' = scores)]_vars

C15_Witness ==
    /\ script = Len(Scenario2)
    /\ lastOp.op = "handleMove" /\ ~lastOp.ok
    /\ game.winner = "X"
    /\ Get(game.board, 7) = Null /\ Get(game.board, 8) = Null

C17_OutcomeAgrees ==
    /\ game.winner = getWinner(game.board)
    /\ game.tie <=> (getWinner(game.board) = Null /\ AllCellsOccupied(game.board))
    /\ ~(Truthy(game.winner) /\ game.tie)

C17_Witness ==
    /\ lastOp.op = "computerMove" /\ lastOp.ok
    /\ game.winner = "O"
    /\ getWinner(game.board) = "O"
    /\ ~game.tie

\* C18 (automated move only on its own turn): every computer move that is
\* applied is applied in a state where started is true, the mode is Play vs
\* Computer, the round is in progress and O is to move, and it puts one O
\* on an empty cell and changes no other cell.
C18_ComputerMovesOnlyAsO ==
    [][(lastOp'.op = "computerMove" /\ lastOp'.ok) =>
          /\ started /\ mode = PVC
          /\ ~Terminal(game) /\ ~game.xIsNext
          /\ started' /\ mode' = PVC
          /\ \E i \in Cells :
                /\ Get(game.board, i) = Null
                /\ Get(game'.board, i) = "O"
                /\ \A j \in Cells \ {i} : Get(game'.board, j) = Get(game.board, j)]_vars

C18_Witness ==
    /\ lastOp.op = "computerMove" /\ lastOp.ok
    /\ lastMark = "O"
    /\ started /\ mode = PVC

C20_NoScoreAcrossReset ==
    Sum(finished) = 0 => Sum(scores) = 0

====
